---- MODULE Spec2Model ----
(***************************************************************************)
(* Model of the item-id mapping core of item-map-web: load_mapping builds  *)
(* the exact and the digits index, map_token resolves one identifier token *)
(* through the fallback chain, transform_cell rewrites one cell.           *)
(*                                                                         *)
(* A Python str is a sequence of one-character strings, a Python dict is a *)
(* sequence of <<key, value>> pairs in insertion order (assigning to an    *)
(* existing key keeps the key's place), a spreadsheet cell value is a      *)
(* record tagged with its Python type.                                     *)
(***************************************************************************)
EXTENDS Integers, Sequences, FiniteSets, TLC

VARIABLES rows, pc, id_to_name, id_to_name_digits, call, unmatched_acc

vars == <<rows, pc, id_to_name, id_to_name_digits, call, unmatched_acc>>

----------------------------------------------------------------------------
(* Cell values                                                             *)

\* str value
StrVal(s) == [kind |-> "str", s |-> s, n |-> 0, t |-> 0]
\* int value
IntVal(n) == [kind |-> "int", s |-> <<>>, n |-> n, t |-> 0]
\* float value n + t/10 (n >= 0, t in 0..9)
FloatVal(n, t) == [kind |-> "float", s |-> <<>>, n |-> n, t |-> t]
\* None
NoneVal == [kind |-> "none", s |-> <<>>, n |-> 0, t |-> 0]

\* Python truthiness of a cell value: `not v`
falsy(v) ==
    CASE v.kind = "none" -> TRUE
      [] v.kind = "str" -> v.s = <<>>
      [] v.kind = "int" -> v.n = 0
      [] v.kind = "float" -> v.n = 0 /\ v.t = 0

----------------------------------------------------------------------------
(* Strings                                                                 *)

\* characters for which str.isdigit() holds; the cells modelled here hold
\* ASCII digits only
Digits == {"0", "1", "2", "3", "4", "5", "6", "7", "8", "9"}

\* characters str.strip() removes; the cells modelled here are padded with
\* blanks only
Whitespace == {" "}

DigitChar(n) == <<"0", "1", "2", "3", "4", "5", "6", "7", "8", "9">>[n + 1]

RECURSIVE nat_str(_)
nat_str(n) ==
    IF n < 10 THEN <<DigitChar(n)>>
    ELSE nat_str(n \div 10) \o <<DigitChar(n % 10)>>

\* str(v) of an int
int_str(n) == IF n < 0 THEN <<"-">> \o nat_str(0 - n) ELSE nat_str(n)

to_text(v) ==
    CASE v.kind = "none" -> <<>>
      [] v.kind = "int" -> int_str(v.n)
      [] v.kind = "float" ->
            IF v.t = 0 THEN int_str(v.n)
            ELSE int_str(v.n) \o <<".", DigitChar(v.t)>>
      [] v.kind = "str" -> v.s

RECURSIVE lstrip(_)
lstrip(s) ==
    IF s # <<>> /\ Head(s) \in Whitespace THEN lstrip(Tail(s)) ELSE s

RECURSIVE rstrip(_)
rstrip(s) ==
    IF s # <<>> /\ s[Len(s)] \in Whitespace
    THEN rstrip(SubSeq(s, 1, Len(s) - 1)) ELSE s

\* str.strip()
strip(s) == rstrip(lstrip(s))

digits_only(s) == SelectSeq(s, LAMBDA ch : ch \in Digits)

----------------------------------------------------------------------------
(* Dicts                                                                   *)

\* k in d
DictHas(d, k) == \E i \in 1..Len(d) : d[i][1] = k

\* d[k]
DictGet(d, k) == d[CHOOSE i \in 1..Len(d) : d[i][1] = k][2]

\* d[k] = v
DictSet(d, k, v) ==
    IF DictHas(d, k)
    THEN [i \in 1..Len(d) |-> IF d[i][1] = k THEN <<k, v>> ELSE d[i]]
    ELSE Append(d, <<k, v>>)

----------------------------------------------------------------------------
(* load_mapping                                                            *)

\* one row of the loop: k = to_text(v_id).strip(); name = ...; if k: d[k] = name
load_row_skip_empty_name(d, row) ==
    LET k == strip(to_text(row[1]))
        name == strip(to_text(row[2]))
    IN IF k # <<>> /\ name # <<>> THEN DictSet(d, k, name) ELSE d

load_row(d, row) ==
    LET k == strip(to_text(row[1]))
        name == strip(to_text(row[2]))
    IN IF k # <<>> THEN DictSet(d, k, name) ELSE d

RECURSIVE load_rows(_, _)
load_rows(rs, d) ==
    IF rs = <<>> THEN d ELSE load_rows(Tail(rs), load_row(d, Head(rs)))

\* {digits_only(k): v for k, v in id_to_name.items() if digits_only(k)}
RECURSIVE digits_index(_, _)
digits_index(items, d) ==
    IF items = <<>> THEN d
    ELSE LET k == Head(items)[1]
             v == Head(items)[2]
         IN digits_index(Tail(items),
                IF digits_only(k) # <<>> THEN DictSet(d, digits_only(k), v) ELSE d)

----------------------------------------------------------------------------
(* map_token                                                               *)

candidates_6_first(d) ==
    IF d = <<>> THEN <<>>
    ELSE IF Len(d) \in {3, 4} THEN <<d, <<"6">> \o d, <<"6", "6">> \o d>>
    ELSE <<d>>

candidates(d) ==
    IF d = <<>> THEN <<>>
    ELSE IF Len(d) \in {3, 4} THEN <<d, <<"6", "6">> \o d, <<"6">> \o d>>
    ELSE <<d>>

\* `k in m and m[k] != ''`
hit(m, k) == DictHas(m, k) /\ DictGet(m, k) # <<>>

\* for c in candidates: exact first, then digits
RECURSIVE probe(_, _, _, _)
probe(cs, token, e, dg) ==
    IF cs = <<>> THEN <<token, FALSE>>
    ELSE IF hit(e, Head(cs)) THEN <<DictGet(e, Head(cs)), TRUE>>
    ELSE IF hit(dg, Head(cs)) THEN <<DictGet(dg, Head(cs)), TRUE>>
    ELSE probe(Tail(cs), token, e, dg)

map_token(token, e, dg) ==
    IF hit(e, token) THEN <<DictGet(e, token), TRUE>>
    ELSE probe(candidates(digits_only(token)), token, e, dg)

----------------------------------------------------------------------------
(* transform_cell                                                          *)

Separators == {"&", "|"}

\* re.split(r'([&|])', body): the pieces and the separators, interleaved
RECURSIVE re_split_scan(_, _)
re_split_scan(s, cur) ==
    IF s = <<>> THEN <<cur>>
    ELSE IF Head(s) \in Separators
         THEN <<cur, <<Head(s)>>>> \o re_split_scan(Tail(s), <<>>)
         ELSE re_split_scan(Tail(s), Append(cur, Head(s)))

re_split(body) == re_split_scan(body, <<>>)

\* s.split(ch)
RECURSIVE str_split_scan(_, _, _)
str_split_scan(s, ch, cur) ==
    IF s = <<>> THEN <<cur>>
    ELSE IF Head(s) = ch
         THEN <<cur>> \o str_split_scan(Tail(s), ch, <<>>)
         ELSE str_split_scan(Tail(s), ch, Append(cur, Head(s)))

str_split(s, ch) == str_split_scan(s, ch, <<>>)

\* ch.join(parts)
RECURSIVE str_join(_, _)
str_join(parts, ch) ==
    IF parts = <<>> THEN <<>>
    ELSE IF Len(parts) = 1 THEN parts[1]
    ELSE parts[1] \o <<ch>> \o str_join(Tail(parts), ch)

\* ''.join(parts)
RECURSIVE concat(_)
concat(parts) ==
    IF parts = <<>> THEN <<>> ELSE Head(parts) \o concat(Tail(parts))

starts_with(s, prefix) ==
    Len(prefix) <= Len(s) /\ SubSeq(s, 1, Len(prefix)) = prefix

RECURSIVE strip_prefix_all(_, _)
strip_prefix_all(s, prefix) ==
    IF prefix # <<>> /\ starts_with(s, prefix)
    THEN strip_prefix_all(SubSeq(s, Len(prefix) + 1, Len(s)), prefix)
    ELSE s

\* body = s[len(prefix):] if s.startswith(prefix) else s
strip_prefix(s, prefix) ==
    IF starts_with(s, prefix) THEN SubSeq(s, Len(prefix) + 1, Len(s)) ELSE s

sep_out_amp(tk) == <<"&">>

\* out_parts.append(tk) for a separator
sep_out(tk) == tk

unmatched_inc_always(h) == 1

\* if not hit: unmatched += 1
unmatched_inc(h) == IF h THEN 0 ELSE 1

RECURSIVE map_id_tokens_log_all(_, _, _)
map_id_tokens_log_all(id_tokens, e, dg) ==
    IF id_tokens = <<>> THEN [mapped |-> <<>>, unmatched |-> 0, missed |-> <<>>]
    ELSE LET r == map_token(Head(id_tokens), e, dg)
             rest == map_id_tokens_log_all(Tail(id_tokens), e, dg)
         IN [mapped |-> <<r[1]>> \o rest.mapped,
             unmatched |-> unmatched_inc(r[2]) + rest.unmatched,
             missed |-> <<Head(id_tokens)>> \o rest.missed]

\* the loop over id_tokens: mapped_tokens, unmatched, the tokens appended to
\* unmatched_acc
RECURSIVE map_id_tokens(_, _, _)
map_id_tokens(id_tokens, e, dg) ==
    IF id_tokens = <<>> THEN [mapped |-> <<>>, unmatched |-> 0, missed |-> <<>>]
    ELSE LET r == map_token(Head(id_tokens), e, dg)
             rest == map_id_tokens(Tail(id_tokens), e, dg)
         IN [mapped |-> <<r[1]>> \o rest.mapped,
             unmatched |-> unmatched_inc(r[2]) + rest.unmatched,
             missed |-> (IF r[2] THEN <<>> ELSE <<Head(id_tokens)>>) \o rest.missed]

seg_tail_reversed(suffix_parts) ==
    IF suffix_parts # <<>>
    THEN <<"$">> \o str_join([i \in 1..Len(suffix_parts) |->
                                suffix_parts[Len(suffix_parts) + 1 - i]], "$")
    ELSE <<>>

seg_tail_drop_empty(suffix_parts) ==
    LET kept == SelectSeq(suffix_parts, LAMBDA p : p # <<>>)
    IN IF kept # <<>> THEN <<"$">> \o str_join(kept, "$") ELSE <<>>

\* ('$' + '$'.join(suffix_parts)) if suffix_parts else ''
seg_tail(suffix_parts) ==
    IF suffix_parts # <<>> THEN <<"$">> \o str_join(suffix_parts, "$") ELSE <<>>

\* the loop body for one segment
transform_segment(seg, e, dg) ==
    LET parts == str_split(seg, "$")
        ids_part == parts[1]
        suffix_parts == Tail(parts)
        id_tokens == SelectSeq(str_split(ids_part, "-"), LAMBDA tok : tok # <<>>)
        m == map_id_tokens(id_tokens, e, dg)
        new_ids == IF id_tokens # <<>> THEN str_join(m.mapped, "-") ELSE ids_part
    IN [kind |-> "seg", tk |-> seg, out |-> <<new_ids \o seg_tail(suffix_parts)>>,
        ncalls |-> Len(id_tokens), unmatched |-> m.unmatched, missed |-> m.missed]

\* one iteration of `for tk in tokens`: what it appends to out_parts, how
\* many map_token calls it makes, what it adds to unmatched and unmatched_acc
loop_step(tk, e, dg) ==
    IF tk \in {<<"&">>, <<"|">>}
    THEN [kind |-> "sep", tk |-> tk, out |-> <<sep_out(tk)>>,
          ncalls |-> 0, unmatched |-> 0, missed |-> <<>>]
    ELSE IF tk = <<>>
    THEN [kind |-> "skip", tk |-> tk, out |-> <<>>,
          ncalls |-> 0, unmatched |-> 0, missed |-> <<>>]
    ELSE transform_segment(tk, e, dg)

RECURSIVE sum_unmatched(_)
sum_unmatched(steps) ==
    IF steps = <<>> THEN 0 ELSE Head(steps).unmatched + sum_unmatched(Tail(steps))

\* the tokenizer, the loop and the join: body to core
rewrite_body(body, e, dg) ==
    LET tokens == re_split(body)
        steps == [i \in 1..Len(tokens) |-> loop_step(tokens[i], e, dg)]
        out_parts == concat([i \in 1..Len(steps) |-> steps[i].out])
    IN [steps |-> steps,
        core |-> concat(out_parts),
        unmatched |-> sum_unmatched(steps),
        missed |-> concat([i \in 1..Len(steps) |-> steps[i].missed])]

transform_cell(text, keep_prefix, prefix, e, dg, acc) ==
    IF falsy(text)
    THEN [text |-> text, unmatched |-> 0, acc |-> acc, body |-> <<>>, steps |-> <<>>]
    ELSE LET s == strip(to_text(text))
             body == strip_prefix(s, prefix)
             r == rewrite_body(body, e, dg)
         IN [text |-> StrVal(IF keep_prefix THEN prefix \o r.core ELSE r.core),
             unmatched |-> r.unmatched,
             acc |-> acc \o r.missed,
             body |-> body,
             steps |-> r.steps]

----------------------------------------------------------------------------
(* State machine                                                           *)

NoCall == [op |-> "none"]

\* the index is loaded and no call was made yet
Idle == pc = "ready" /\ call = NoCall

\* load_mapping: both indexes are built from the rows
LoadMapping ==
    /\ pc = "start"
    /\ LET m == load_rows(rows, <<>>)
       IN /\ id_to_name' = m
          /\ id_to_name_digits' = digits_index(m, <<>>)
    /\ pc' = "ready"
    /\ UNCHANGED <<rows, call, unmatched_acc>>

\* one call of map_token on the loaded index
MapToken(token) ==
    /\ Idle
    /\ LET r == map_token(token, id_to_name, id_to_name_digits)
       IN call' = [op |-> "map_token", token |-> token,
                   name |-> r[1], hit |-> r[2]]
    /\ UNCHANGED <<rows, pc, id_to_name, id_to_name_digits, unmatched_acc>>

\* one call of transform_cell on the loaded index
TransformCell(text, keep_prefix, prefix) ==
    /\ Idle
    /\ LET r == transform_cell(text, keep_prefix, prefix,
                               id_to_name, id_to_name_digits, unmatched_acc)
       IN /\ call' = [op |-> "transform_cell", text |-> text,
                      keep_prefix |-> keep_prefix, prefix |-> prefix,
                      result |-> r.text, unmatched |-> r.unmatched,
                      body |-> r.body, steps |-> r.steps]
          /\ unmatched_acc' = r.acc
    /\ UNCHANGED <<rows, pc, id_to_name, id_to_name_digits>>

InitWith(rs) ==
    /\ rows = rs
    /\ pc = "start"
    /\ id_to_name = <<>>
    /\ id_to_name_digits = <<>>
    /\ call = NoCall
    /\ unmatched_acc = <<>>

----------------------------------------------------------------------------
(* Building the index: every row order over a pool of rows                 *)

MaxRows == 3

sX == <<"X">>
sY == <<"Y">>
sA1 == <<"a", "1">>
s1B == <<"1", "b">>
sAB == <<"a", "b">>
s1 == <<"1">>

BuildRowPool ==
    {<<StrVal(i), StrVal(n)>> : i \in {sA1, s1B, <<>>}, n \in {sX, sY, <<>>}}
    \cup {<<StrVal(sAB), StrVal(sX)>>,
          <<StrVal(<<" ">> \o sA1 \o <<" ">>), StrVal(sY \o <<" ">>)>>,
          <<IntVal(1), FloatVal(2, 0)>>,
          <<NoneVal, StrVal(sX)>>,
          <<StrVal(s1B), NoneVal>>}

RECURSIVE SeqsUpTo(_, _)
SeqsUpTo(S, n) ==
    IF n = 0 THEN {<<>>}
    ELSE LET shorter == SeqsUpTo(S, n - 1)
         IN shorter \cup {Append(q, x) : q \in shorter, x \in S}

BuildTokens == {sA1, s1B, s1, sAB, <<"2">>}

InitBuild == \E rs \in SeqsUpTo(BuildRowPool, MaxRows) : InitWith(rs)

NextBuild ==
    \/ LoadMapping
    \/ Idle /\ \E tok \in BuildTokens : MapToken(tok)

SpecBuild == InitBuild /\ [][NextBuild]_vars

RowId(r) == strip(to_text(r[1]))
RowName(r) == strip(to_text(r[2]))

\* the last row whose id satisfies P
LastRow(P(_)) ==
    CHOOSE i \in 1..Len(rows) :
        /\ P(RowId(rows[i]))
        /\ \A j \in (i + 1)..Len(rows) : ~P(RowId(rows[j]))

\* C2: when two different raw ids normalize to the same digit string, the
\* digits index maps that digit string to the name of the colliding row that
\* comes last in the sequence, whatever the row order and also when one of
\* the colliding ids appears again in a later row.
C2_LaterRowWins ==
    pc = "ready" =>
        \A i, j \in 1..Len(rows) :
            LET a == RowId(rows[i])
                b == RowId(rows[j])
                dk == digits_only(a)
                Same(k) == k # <<>> /\ digits_only(k) = dk
            IN (a # <<>> /\ b # <<>> /\ a # b /\ dk # <<>> /\ digits_only(b) = dk)
                => /\ DictHas(id_to_name_digits, dk)
                   /\ DictGet(id_to_name_digits, dk) = RowName(rows[LastRow(Same)])

\* C3 as stated: after building, neither index holds a key whose name is
\* the empty string.
C3_NoEmptyNames ==
    pc = "ready" =>
        /\ \A i \in 1..Len(id_to_name) : id_to_name[i][2] # <<>>
        /\ \A i \in 1..Len(id_to_name_digits) : id_to_name_digits[i][2] # <<>>

\* C3 amended: the exact index maps every non-empty trimmed id to the
\* trimmed name of its last row, even when that name is the empty string,
\* and resolve treats a key with an empty name as unmapped: it never
\* returns a hit with an empty name, and a miss returns the token.
C3_EmptyNamesStoredButUnmapped ==
    /\ pc = "ready" =>
          \A i \in 1..Len(rows) :
              LET a == RowId(rows[i])
                  Is(k) == k = a
              IN a # <<>> =>
                    /\ DictHas(id_to_name, a)
                    /\ DictGet(id_to_name, a) = RowName(rows[LastRow(Is)])
    /\ call.op = "map_token" =>
          /\ call.hit => call.name # <<>>
          /\ ~call.hit => call.name = call.token

\* a token that is a key of the exact index with an empty name was resolved
\* and missed
C3_Witness ==
    /\ call.op = "map_token"
    /\ DictHas(id_to_name, call.token)
    /\ DictGet(id_to_name, call.token) = <<>>
    /\ ~call.hit

----------------------------------------------------------------------------
(* Resolving: every selection of rows that feed the probes of the chain    *)

s771 == <<"7", "7", "1">>
s6704 == <<"6", "7", "0", "4">>

ResolveRows ==
    << <<StrVal(s771), StrVal(<<"T">>)>>,
       <<StrVal(s771), StrVal(<<>>)>>,
       <<StrVal(<<"7", "-", "7", "1">>), StrVal(<<"D">>)>>,
       <<StrVal(<<"6", "6">> \o s771), StrVal(<<"E", "2">>)>>,
       <<StrVal(<<"6", "6", "-">> \o s771), StrVal(<<"D", "2">>)>>,
       <<StrVal(<<"6">> \o s771), StrVal(<<"E", "1">>)>>,
       <<StrVal(<<"6", "-">> \o s771), StrVal(<<"D", "1">>)>>,
       <<StrVal(<<"x">> \o s771), StrVal(<<"V">>)>>,
       <<StrVal(<<"6", "6">> \o s6704), StrVal(<<"W">>)>>,
       <<StrVal(<<"6", "6", "7", "7">>), StrVal(<<"N">>)>>,
       <<StrVal(<<"6", "6">> \o s771 \o <<"0", "0">>), StrVal(<<"M">>)>> >>

RECURSIVE SelectRows(_, _)
SelectRows(S, i) ==
    IF i > Len(ResolveRows) THEN <<>>
    ELSE (IF i \in S THEN <<ResolveRows[i]>> ELSE <<>>) \o SelectRows(S, i + 1)

ResolveTokens ==
    {s771, <<"x">> \o s771, <<"7", "y", "7", "1">>, s6704, <<"7", "7">>,
     s771 \o <<"0", "0">>, <<"z">>}

InitResolve ==
    \E S \in SUBSET (1..Len(ResolveRows)) : InitWith(SelectRows(S, 1))

NextResolve ==
    \/ LoadMapping
    \/ Idle /\ \E tok \in ResolveTokens : MapToken(tok)

SpecResolve == InitResolve /\ [][NextResolve]_vars

\* the value a probe <<index, key>> finds, '' when the key is absent
ProbeValue(p) ==
    LET m == IF p[1] = "exact" THEN id_to_name ELSE id_to_name_digits
    IN IF DictHas(m, p[2]) THEN DictGet(m, p[2]) ELSE <<>>

\* the probes of the claim, in its order
Probes(token) ==
    LET d == digits_only(token)
    IN <<<<"exact", token>>>>
       \o (IF d = <<>> THEN <<>> ELSE <<<<"exact", d>>, <<"digits", d>>>>)
       \o (IF Len(d) = 3 \/ Len(d) = 4
           THEN <<<<"exact", <<"6", "6">> \o d>>, <<"digits", <<"6", "6">> \o d>>,
                  <<"exact", <<"6">> \o d>>, <<"digits", <<"6">> \o d>>>>
           ELSE <<>>)

FirstHit(ps) ==
    IF \E i \in 1..Len(ps) : ProbeValue(ps[i]) # <<>>
    THEN CHOOSE i \in 1..Len(ps) :
            /\ ProbeValue(ps[i]) # <<>>
            /\ \A j \in 1..(i - 1) : ProbeValue(ps[j]) = <<>>
    ELSE 0

\* C1: map_token returns the name of the first probe with a non-empty value
\* in the order exact[token], exact[d], digits[d], and for d of length 3 or
\* 4 exact['66'+d], digits['66'+d], exact['6'+d], digits['6'+d]; it returns
\* (token, false) when no probe hits.
C1_FirstProbeWins ==
    call.op = "map_token" =>
        LET ps == Probes(call.token)
            w == FirstHit(ps)
        IN IF w = 0 THEN call.name = call.token /\ ~call.hit
           ELSE call.name = ProbeValue(ps[w]) /\ call.hit

\* a '66'-prefixed probe won although a '6'-prefixed probe hits another name
C1_Witness ==
    /\ call.op = "map_token"
    /\ call.hit
    /\ LET ps == Probes(call.token)
           w == FirstHit(ps)
       IN /\ Len(ps) = 7
          /\ w \in {4, 5}
          /\ \E j \in 6..7 : ProbeValue(ps[j]) \notin {<<>>, ProbeValue(ps[w])}

----------------------------------------------------------------------------
(* Rewriting: cells of up to MaxSegs segments (the first of any shape of   *)
(* the pool), numeric cells up to MaxInt, three mapping tables             *)

MaxSegs == 3
MaxInt == 12

s2 == <<"2">>
sP == <<"P", "=">>

\* nothing resolves; plain names; names that hold '&', '|', '$' and '-'
RewriteTables ==
    { <<>>,
      << <<StrVal(s1), StrVal(<<"S", "w">>)>>,
         <<StrVal(<<"6", "6">> \o s771), StrVal(<<"A", "-", "x">>)>>,
         <<StrVal(<<"5">>), StrVal(<<"P", "o">>)>>,
         <<IntVal(12), StrVal(<<"T", "w">>)>>,
         <<IntVal(0), StrVal(<<"Z">>)>> >>,
      << <<StrVal(s1), StrVal(<<"A", "&", "B">>)>>,
         <<StrVal(s2), StrVal(<<"C", "$", "D">>)>>,
         <<StrVal(s771), StrVal(<<"E", "|", "F">>)>> >> }

SegPool ==
    { s1, <<"1", "-", "2">>, <<"2", "-", "-", "1", "-">>, <<"$", "1">>,
      <<"2", "$", "1", "$", "5">>, <<>>, <<"-">>, s771 \o <<"$">> }

\* the segments that follow the first one
MoreSegs == {s1, <<"2", "$", "1", "$", "5">>, <<>>}

RECURSIVE Bodies(_)
Bodies(n) ==
    IF n <= 1 THEN SegPool
    ELSE LET shorter == Bodies(n - 1)
         IN shorter \cup {b \o <<c>> \o g : b \in shorter, c \in Separators, g \in MoreSegs}

\* a body as typed, with the prefix (once or twice) and padded
CellTexts ==
    {StrVal(b) : b \in Bodies(MaxSegs)}
    \cup {StrVal(sP \o b) : b \in Bodies(MaxSegs)}
    \cup {StrVal(<<" ">> \o sP \o sP \o b \o <<" ">>) : b \in Bodies(MaxSegs)}

NumericCells ==
    {IntVal(n) : n \in (0 - 1)..MaxInt}
    \cup {FloatVal(0, 0), FloatVal(5, 0), FloatVal(1, 5), NoneVal, StrVal(<<" ">>)}

InitRewrite == \E tb \in RewriteTables : InitWith(tb)

NextRewrite ==
    \/ LoadMapping
    \/ Idle /\ \E text \in CellTexts \cup NumericCells, keep_prefix \in BOOLEAN :
                  TransformCell(text, keep_prefix, sP)
    \/ Idle /\ \E b \in Bodies(2), keep_prefix \in BOOLEAN :
                  TransformCell(StrVal(b), keep_prefix, <<>>)

SpecRewrite == InitRewrite /\ [][NextRewrite]_vars

(* What the claims measure, computed from the call's arguments and result  *)

\* the pieces of s between the characters of C
RECURSIVE RefPieces(_, _)
RefPieces(s, C) ==
    IF \A i \in 1..Len(s) : s[i] \notin C THEN <<s>>
    ELSE LET i == CHOOSE k \in 1..Len(s) :
                     s[k] \in C /\ \A j \in 1..(k - 1) : s[j] \notin C
         IN <<SubSeq(s, 1, i - 1)>> \o RefPieces(SubSeq(s, i + 1, Len(s)), C)

\* the separators of s, in order
RefSeps(s) == SelectSeq(s, LAMBDA ch : ch = "&" \/ ch = "|")

\* s without its leading and trailing blanks
RefTrim(s) ==
    LET inked == {i \in 1..Len(s) : s[i] # " "}
    IN IF inked = {} THEN <<>>
       ELSE SubSeq(s, CHOOSE i \in inked : \A j \in inked : i <= j,
                      CHOOSE i \in inked : \A j \in inked : i >= j)

\* the trimmed text with one leading prefix removed when present
RefBody(s, prefix) ==
    LET trimmed == RefTrim(s)
        n == Len(prefix)
    IN IF Len(trimmed) >= n /\ \A i \in 1..n : trimmed[i] = prefix[i]
       THEN [i \in 1..(Len(trimmed) - n) |-> trimmed[i + n]]
       ELSE trimmed

\* the idspec of a segment and its tail (from the first '$' on)
RefIdspec(seg) == RefPieces(seg, {"$"})[1]
RefSuffixTail(seg) == SubSeq(seg, Len(RefIdspec(seg)) + 1, Len(seg))
RefSuffixCount(seg) == Len(RefPieces(seg, {"$"})) - 1

\* the identifier tokens of a segment
RefSegTokens(seg) ==
    SelectSeq(RefPieces(RefIdspec(seg), {"-"}), LAMBDA p : p # <<>>)

RECURSIVE RefFlatten(_)
RefFlatten(ss) == IF ss = <<>> THEN <<>> ELSE ss[1] \o RefFlatten(Tail(ss))

\* the identifier tokens of a body, left to right
RefTokens(body) ==
    LET segs == RefPieces(body, Separators)
    IN RefFlatten([i \in 1..Len(segs) |-> RefSegTokens(segs[i])])

RefHit(tok) == map_token(tok, id_to_name, id_to_name_digits)[2]
RefName(tok) == map_token(tok, id_to_name, id_to_name_digits)[1]

RefMisses(body) == SelectSeq(RefTokens(body), LAMBDA tok : ~RefHit(tok))

\* a segment with every hit token replaced by its name and every miss kept
RefSegOut(seg) ==
    LET toks == RefSegTokens(seg)
        put == [i \in 1..Len(toks) |->
                  (IF i > 1 THEN <<"-">> ELSE <<>>)
                  \o (IF RefHit(toks[i]) THEN RefName(toks[i]) ELSE toks[i])]
    IN IF toks = <<>> THEN seg ELSE RefFlatten(put) \o RefSuffixTail(seg)

\* the body with its segments replaced and its separators kept in place
RefRewrite(body) ==
    LET segs == RefPieces(body, Separators)
        seps == RefSeps(body)
    IN RefFlatten([i \in 1..Len(segs) |->
                     (IF i > 1 THEN <<seps[i - 1]>> ELSE <<>>) \o RefSegOut(segs[i])])

\* a call of transform_cell on a non-empty text
IsRewrite ==
    /\ call.op = "transform_cell"
    /\ call.text.kind = "str"
    /\ call.text.s # <<>>

InBody == RefBody(call.text.s, call.prefix)

\* the result without the prefix that keep_prefix put in front
OutCore ==
    IF call.keep_prefix
    THEN SubSeq(call.result.s, Len(call.prefix) + 1, Len(call.result.s))
    ELSE call.result.s

\* no name of the index holds a character of C
NamesAvoid(C) ==
    \A i \in 1..Len(id_to_name) :
        \A j \in 1..Len(id_to_name[i][2]) : id_to_name[i][2][j] \notin C

\* C4 as stated: for every cell text and every index, the separators of
\* the rewritten core are those of the input body, one for one and in order.
C4_SeparatorsPreserved ==
    IsRewrite => RefSeps(OutCore) = RefSeps(InBody)

\* C4 amended: for every cell text and every index whose names hold neither
\* '&' nor '|', the separators of the rewritten core are those of the input
\* body, one for one and in order.
C4_SeparatorsPreservedCleanNames ==
    (IsRewrite /\ NamesAvoid(Separators)) => RefSeps(OutCore) = RefSeps(InBody)

\* a body with both separators was rewritten (some token replaced) under an
\* index with clean names
C4_Witness ==
    /\ IsRewrite
    /\ NamesAvoid(Separators)
    /\ id_to_name # <<>>
    /\ \E i, j \in 1..Len(InBody) : InBody[i] = "&" /\ InBody[j] = "|"
    /\ OutCore # InBody

SameShape(out, in) ==
    LET so == RefPieces(out, Separators)
        si == RefPieces(in, Separators)
    IN /\ Len(so) = Len(si)
       /\ \A i \in 1..Len(si) :
             i <= Len(so) => RefSuffixCount(so[i]) = RefSuffixCount(si[i])

\* C5 as stated: for every cell text and every index, the output splits
\* into as many segments as the input body, each with as many suffix parts.
C5_ShapePreserved ==
    IsRewrite => SameShape(OutCore, InBody)

\* C5 amended: for every cell text and every index whose names hold none of
\* '&', '|', '$', the output splits into as many segments as the input body,
\* each with as many suffix parts.
C5_ShapePreservedCleanNames ==
    (IsRewrite /\ NamesAvoid(Separators \cup {"$"})) => SameShape(OutCore, InBody)

\* a two-segment body with an empty suffix part was rewritten (some token
\* replaced) under an index with clean names
C5_Witness ==
    /\ IsRewrite
    /\ NamesAvoid(Separators \cup {"$"})
    /\ OutCore # InBody
    /\ LET si == RefPieces(InBody, Separators)
       IN /\ Len(si) >= 2
          /\ \E i \in 1..Len(si) :
                /\ RefSuffixCount(si[i]) >= 1
                /\ RefSegTokens(si[i]) # <<>>
                /\ \E p \in 2..Len(RefPieces(si[i], {"$"})) :
                      RefPieces(si[i], {"$"})[p] = <<>>

\* C6: when no identifier token of the cell resolves, transform_cell with
\* keep_prefix false returns the input body unchanged and unmatched is the
\* number of identifier tokens, for every body shape.
C6_RoundTripWhenNothingResolves ==
    (/\ IsRewrite
     /\ ~call.keep_prefix
     /\ \A i \in 1..Len(RefTokens(InBody)) : ~RefHit(RefTokens(InBody)[i]))
    => /\ call.result = StrVal(InBody)
       /\ call.unmatched = Len(RefTokens(InBody))

\* C7: the body is the trimmed text with exactly one leading prefix removed
\* when present, and the result is prefix + core with keep_prefix and core
\* without, core being the rewrite of that body.
C7_PrefixHandling ==
    IsRewrite =>
        /\ call.body = InBody
        /\ call.result =
              StrVal((IF call.keep_prefix THEN call.prefix ELSE <<>>)
                     \o rewrite_body(InBody, id_to_name, id_to_name_digits).core)

\* a text that carries the prefix twice was rewritten with keep_prefix: one
\* prefix was removed, one stays in the body
C7_Witness ==
    /\ IsRewrite
    /\ call.keep_prefix
    /\ call.prefix # <<>>
    /\ starts_with(RefTrim(call.text.s), call.prefix \o call.prefix)
    /\ starts_with(call.body, call.prefix)
    /\ starts_with(call.result.s, call.prefix)

\* C8: unmatched is the number of identifier tokens that map_token misses,
\* every missed token stays verbatim in its place and every hit token is
\* replaced by its name.
C8_UnmatchedCountsMisses ==
    IsRewrite =>
        /\ call.unmatched = Len(RefMisses(InBody))
        /\ OutCore = RefRewrite(InBody)

\* a cell with a hit and a miss was rewritten
C8_Witness ==
    /\ IsRewrite
    /\ call.unmatched > 0
    /\ call.unmatched < Len(RefTokens(InBody))

\* C9: for every integer cell value v, transform_cell(v, ...) returns the
\* same text and unmatched count as transform_cell on the decimal text of v.
C9_NumericLikeText ==
    (call.op = "transform_cell" /\ call.text.kind = "int") =>
        LET r == transform_cell(StrVal(int_str(call.text.n)), call.keep_prefix,
                                call.prefix, id_to_name, id_to_name_digits, <<>>)
        IN /\ to_text(call.result) = to_text(r.text)
           /\ call.unmatched = r.unmatched

EndsWith(s, tail) ==
    Len(s) >= Len(tail) /\ SubSeq(s, Len(s) - Len(tail) + 1, Len(s)) = tail

\* C10: the loop sees the pieces of the body; every segment's rewrite ends
\* with the segment's '$'-suffix tail unchanged, whatever hits or misses; a
\* segment without identifier token is emitted literally, with no map_token
\* call and nothing unmatched.
C10_SuffixesPassThrough ==
    IsRewrite =>
        /\ RefFlatten([k \in 1..Len(call.steps) |-> call.steps[k].tk]) = InBody
        /\ OutCore = RefFlatten([k \in 1..Len(call.steps) |->
                                    RefFlatten(call.steps[k].out)])
        /\ \A k \in 1..Len(call.steps) :
              LET st == call.steps[k]
              IN st.kind # "sep" =>
                    /\ EndsWith(RefFlatten(st.out), RefSuffixTail(st.tk))
                    /\ RefSegTokens(st.tk) = <<>> =>
                          /\ RefFlatten(st.out) = st.tk
                          /\ st.ncalls = 0
                          /\ st.unmatched = 0
                          /\ st.missed = <<>>

\* a segment with two suffix parts, one of them a key of the index, was
\* rewritten next to a segment that is a stray '$' with a suffix
C10_Witness ==
    /\ IsRewrite
    /\ \E k \in 1..Len(call.steps) :
          LET st == call.steps[k]
          IN /\ st.kind = "seg"
             /\ RefSuffixCount(st.tk) = 2
             /\ st.ncalls > 0
             /\ \E p \in 2..3 : RefHit(RefPieces(st.tk, {"$"})[p])
    /\ \E k \in 1..Len(call.steps) :
          LET st == call.steps[k]
          IN st.kind = "seg" /\ RefIdspec(st.tk) = <<>> /\ st.ncalls = 0

----------------------------------------------------------------------------
(* A run: the index is loaded once, then cells are rewritten one after the *)
(* other with one shared unmatched-token list, and tokens are resolved, in *)
(* any order                                                               *)

MaxAcc == 3

map_token_dicts_cached(token, e, dg) ==
    LET r == map_token(token, e, dg)
    IN IF r[2] /\ ~hit(e, token) THEN <<DictSet(e, token, r[1]), dg>> ELSE <<e, dg>>

\* the two dicts after map_token returns: it reads them and assigns nothing
map_token_dicts(token, e, dg) == <<e, dg>>

\* the tokens transform_cell passes to map_token, in order
cell_id_tokens(text, prefix) ==
    IF falsy(text) THEN <<>>
    ELSE LET tokens == re_split(strip_prefix(strip(to_text(text)), prefix))
         IN concat([i \in 1..Len(tokens) |->
                IF tokens[i] \in {<<"&">>, <<"|">>, <<>>} THEN <<>>
                ELSE SelectSeq(str_split(str_split(tokens[i], "$")[1], "-"),
                               LAMBDA tok : tok # <<>>)])

\* the two dicts after transform_cell returns: after its map_token calls
RECURSIVE dicts_after(_, _, _)
dicts_after(toks, e, dg) ==
    IF toks = <<>> THEN <<e, dg>>
    ELSE LET d == map_token_dicts(Head(toks), e, dg)
         IN dicts_after(Tail(toks), d[1], d[2])

\* the sum of the counts transform_cell returned so far (unmatched += um)
ReturnedTotal == IF call.op = "none" THEN 0 ELSE call.total

\* one iteration of the loop over the source rows: transform_cell on the
\* row's value with the shared unmatched-token list
ProcessCell(text, keep_prefix, prefix) ==
    /\ pc = "ready"
    /\ text.kind # "none"
    /\ Len(unmatched_acc) < MaxAcc
    /\ LET r == transform_cell(text, keep_prefix, prefix,
                               id_to_name, id_to_name_digits, unmatched_acc)
           d == dicts_after(cell_id_tokens(text, prefix),
                            id_to_name, id_to_name_digits)
       IN /\ call' = [op |-> "transform_cell", text |-> text,
                      keep_prefix |-> keep_prefix, prefix |-> prefix,
                      result |-> r.text, unmatched |-> r.unmatched,
                      body |-> r.body, steps |-> r.steps,
                      acc_in |-> unmatched_acc,
                      total |-> ReturnedTotal + r.unmatched]
          /\ unmatched_acc' = r.acc
          /\ id_to_name' = d[1]
          /\ id_to_name_digits' = d[2]
    /\ UNCHANGED <<rows, pc>>

\* one call of map_token between the cells
ResolveToken(token) ==
    /\ pc = "ready"
    /\ LET r == map_token(token, id_to_name, id_to_name_digits)
           d == map_token_dicts(token, id_to_name, id_to_name_digits)
       IN /\ call' = [op |-> "map_token", token |-> token,
                      name |-> r[1], hit |-> r[2], total |-> ReturnedTotal]
          /\ id_to_name' = d[1]
          /\ id_to_name_digits' = d[2]
    /\ UNCHANGED <<rows, pc, unmatched_acc>>

sX7 == <<"x", "7">>

RunTables ==
    { <<>>,
      << <<StrVal(s1), StrVal(<<"S", "w">>)>>,
         <<StrVal(<<"6", "6">> \o s771), StrVal(<<"A", "x">>)>> >> }

RunCells ==
    { StrVal(<<"1", "-", "2">>),
      StrVal(sP \o sX7 \o <<"|">> \o s771 \o <<"$", "2">>),
      StrVal(<<"2", "&">> \o sX7 \o <<"-", "1">>),
      StrVal(s1),
      StrVal(<<>>),
      IntVal(0),
      IntVal(2),
      NoneVal }

RunTokens == {s1, s2, s771}

Init == \E tb \in RunTables : InitWith(tb)

Next ==
    \/ LoadMapping
    \/ pc = "ready" /\ \E text \in RunCells, keep_prefix \in BOOLEAN :
                          ProcessCell(text, keep_prefix, sP)
    \/ pc = "ready" /\ \E tok \in RunTokens : ResolveToken(tok)

Spec == Init /\ [][Next]_vars

\* the missed tokens of a cell value, left to right; a value that
\* short-circuits has none
RefCellMisses(text, prefix) ==
    IF text.kind = "str"
    THEN (IF text.s = <<>> THEN <<>> ELSE RefMisses(RefBody(text.s, prefix)))
    ELSE IF text.kind = "int" /\ text.n # 0
    THEN RefMisses(RefBody(int_str(text.n), prefix))
    ELSE <<>>

\* C11: each transform_cell call leaves the entries the shared list held at
\* entry in place and appends, left to right, exactly the original tokens
\* of its cell that map_token missed: as many as the count it returns, no
\* hit token; so the list's length is the sum of the returned counts.
C11_AccumulatorCollectsMisses ==
    /\ call.op = "transform_cell" =>
          /\ unmatched_acc = call.acc_in \o RefCellMisses(call.text, call.prefix)
          /\ Len(unmatched_acc) = Len(call.acc_in) + call.unmatched
    /\ pc = "ready" => Len(unmatched_acc) = ReturnedTotal

\* a call on a cell with a hit and a miss appended to a list that already
\* held entries of earlier calls
C11_Witness ==
    /\ call.op = "transform_cell"
    /\ call.acc_in # <<>>
    /\ call.unmatched > 0
    /\ call.text.kind = "str"
    /\ call.unmatched < Len(RefTokens(RefBody(call.text.s, call.prefix)))
    /\ Len(unmatched_acc) > Len(call.acc_in)

\* the index as load_mapping built it from the rows
BuiltExact == load_rows(rows, <<>>)
BuiltDigits == digits_index(BuiltExact, <<>>)

\* C12: after any sequence of map_token and transform_cell calls both
\* indexes are as load_mapping built them (same keys, same values), so
\* every call, whatever came before it, returns what it returns on the
\* index as built.
C12_IndexUnchangedByCalls ==
    pc = "ready" =>
        /\ id_to_name = BuiltExact
        /\ id_to_name_digits = BuiltDigits
        /\ call.op = "map_token" =>
              <<call.name, call.hit>> = map_token(call.token, BuiltExact, BuiltDigits)
        /\ call.op = "transform_cell" =>
              LET r == transform_cell(call.text, call.keep_prefix, call.prefix,
                                      BuiltExact, BuiltDigits, <<>>)
              IN call.result = r.text /\ call.unmatched = r.unmatched

\* a token was resolved through a fallback candidate after cells with
\* misses had been rewritten
C12_Witness ==
    /\ pc = "ready"
    /\ call.op = "map_token"
    /\ call.hit
    /\ ~hit(id_to_name, call.token)
    /\ unmatched_acc # <<>>

====
